---- MODULE Spec2Model ----
(***************************************************************************)
(* Model of api/events.py: the Slack -> Google Chat bridge.                *)
(*                                                                         *)
(* handler(request) is modelled statement group by statement group: the    *)
(* method and configuration gate, the read of body and headers, the        *)
(* signature check, json.loads, the routing of the parsed event, the two   *)
(* Slack Web API lookups and the relay POST.  Everything the handler calls *)
(* (verify_slack_signature, get_channel_name, get_user_display_name,       *)
(* forward_to_gchat) is an operator computed the way the Python computes   *)
(* it, exceptions included.                                                *)
(***************************************************************************)
EXTENDS Integers, Sequences, FiniteSets, TLC

VARIABLES
    env,          \* os.environ: the four configuration values
    pc,           \* the handler's position
    attempt,      \* how many times the current request has been delivered
    method,       \* request.method
    req,          \* body, X-Slack-Request-Timestamp, X-Slack-Signature
    stages,       \* the statement groups of handler executed so far
    event_data,   \* json.loads(body)
    channel_name, \* get_channel_name(...)
    user_name,    \* get_user_display_name(...)
    calls,        \* outbound HTTP calls made by this invocation, in order
    resp,         \* the dict handler returned
    firstResp,    \* what the first delivery of this request returned
    vin,          \* arguments of a direct verify_slack_signature call
    vout,         \* its result
    vchanged      \* which argument was changed after the accepted call

vars == <<env, pc, attempt, method, req, stages, event_data, channel_name,
          user_name, calls, resp, firstResp, vin, vout, vchanged>>

handlerVars == <<env, pc, attempt, method, req, stages, event_data,
                 channel_name, user_name, calls, resp, firstResp>>

verifierVars == <<vin, vout, vchanged>>

(***************************************************************************)
(* Bounds.                                                                 *)
(***************************************************************************)
\* Deliveries of one and the same request (Slack re-sends a request).
MaxAttempts == 2

(***************************************************************************)
(* Python / JSON values.  A value is a record [t, v]: t is its type, v its *)
(* text.  "absent" is a key that the object does not have.                 *)
(***************************************************************************)
Absent == [t |-> "absent", v |-> ""]
None == [t |-> "null", v |-> ""]
Str(s) == [t |-> "str", v |-> s]
Num(s) == [t |-> "num", v |-> s]

\* dict.get(key): None when the key is missing.
dict_get(x) == IF x.t = "absent" THEN None ELSE x

\* Python truthiness of a value.
Truthy(x) ==
    /\ x.t \notin {"absent", "null"}
    /\ ~(x.t = "str" /\ x.v = "")
    /\ ~(x.t = "num" /\ x.v = "0")

\* A mutant: written as dict.get(key) or default.
dict_get_or(x, d) == IF Truthy(x) THEN x ELSE d

\* dict.get(key, default)
dict_get_default(x, d) == IF x.t = "absent" THEN d ELSE x

\* str(x), as an f-string renders it.
PyStr(x) == IF x.t \in {"absent", "null"} THEN "None" ELSE x.v

(***************************************************************************)
(* Strings.                                                                *)
(***************************************************************************)
Whitespace == {" ", "\t", "\n"}

RECURSIVE LStrip(_)
LStrip(s) ==
    IF s = "" THEN ""
    ELSE IF SubSeq(s, 1, 1) \in Whitespace THEN LStrip(SubSeq(s, 2, Len(s)))
    ELSE s

RECURSIVE RStrip(_)
RStrip(s) ==
    IF s = "" THEN ""
    ELSE IF SubSeq(s, Len(s), Len(s)) \in Whitespace
         THEN RStrip(SubSeq(s, 1, Len(s) - 1))
    ELSE s

\* str.strip()
Strip(s) == RStrip(LStrip(s))

\* The character "^" stands for a code point above 127 (a header byte such
\* as 0xE9, which the server hands over as one latin-1 character).
HighChars == {"^"}

IsAscii(s) == \A i \in 1..Len(s) : SubSeq(s, i, i) \notin HighChars

\* user_id[-4:]: the last four characters, or all of a shorter string.
SuffixLen == 4

LastChars(s) ==
    IF Len(s) <= SuffixLen THEN s ELSE SubSeq(s, Len(s) - SuffixLen + 1, Len(s))

(***************************************************************************)
(* verify_slack_signature.                                                 *)
(***************************************************************************)
\* hmac.new(key, msg, sha256).hexdigest(): a keyed function taken to be
\* free of collisions, so the digest names its key and its message.
hexdigest(key, msg) == "hmac[" \o key \o "][" \o msg \o "]"

\* sig_basestring = f"v0:{timestamp}:{body}"
sig_basestring(timestamp, body) == "v0:" \o timestamp \o ":" \o body

\* expected_signature = 'v0=' + hmac.new(...).hexdigest()
expected_signature(signing_secret, body, timestamp) ==
    "v0=" \o hexdigest(signing_secret, sig_basestring(timestamp, body))

\* hmac.compare_digest(a, b) on two str: a TypeError unless both are ASCII.
\* a is 'v0=' and hexadecimal digits, whatever the key and the message are.
compare_digest(a, b) ==
    IF ~IsAscii(b) THEN "raise"
    ELSE IF a = b THEN "true" ELSE "false"

\* A mutant: the guard on missing inputs is gone.
AnyMissingNever(signing_secret, body, timestamp, signature) == FALSE

\* if not all([signing_secret, body, timestamp, signature]): return False
AnyMissing(signing_secret, body, timestamp, signature) ==
    signing_secret = "" \/ body = "" \/ timestamp = "" \/ signature = ""

\* The result is "true", "false" or "raise" (an exception leaves the call).
verify_slack_signature(signing_secret, body, timestamp, signature) ==
    IF AnyMissing(signing_secret, body, timestamp, signature) THEN "false"
    ELSE compare_digest(expected_signature(signing_secret, body, timestamp),
                        signature)

(***************************************************************************)
(* The request body.  A document is what a sender serialises; Serialize    *)
(* gives its JSON text, and json_loads is the parse of a text: the         *)
(* document it is the text of, or a failure (json.JSONDecodeError).        *)
(***************************************************************************)
\* The nested event: t = "obj" for an object with the five keys below, else
\* a scalar (or an absent key) whose other fields are unused.
EventObj(type, subtype, user, text, channel) ==
    [t |-> "obj", v |-> "", type |-> type, subtype |-> subtype, user |-> user,
     text |-> text, channel |-> channel]

EventScalar(x) ==
    [t |-> x.t, v |-> x.v, type |-> Absent, subtype |-> Absent,
     user |-> Absent, text |-> Absent, channel |-> Absent]

\* event_data.get('event', {}): the empty dict when the key is missing.
EmptyDict == EventObj(Absent, Absent, Absent, Absent, Absent)

Payload(type, challenge, event) ==
    [t |-> "obj", type |-> type, challenge |-> challenge, event |-> event]

\* A JSON text whose top level is an array.
ArrayDoc == [t |-> "arr", type |-> Absent, challenge |-> Absent,
             event |-> EventScalar(Absent)]

NoDoc == [t |-> "none", type |-> Absent, challenge |-> Absent,
          event |-> EventScalar(Absent)]

UserIds == {Absent, Str(""), Str("U7"), Str("U024BE7LH"), Num("12345")}

Texts == {Absent, None, Str("   "), Str(" hello world "), Num("7")}

ChannelIds == {Absent, Str("C024BE91L")}

Subtypes == {Absent, None, Str("message_changed")}

AMessage == EventObj(Str("message"), Absent, Str("U024BE7LH"),
                     Str(" hello world "), Str("C024BE91L"))

MessageEvents ==
    {EventObj(Str("message"), st, u, tx, ch) :
        st \in Subtypes, u \in UserIds, tx \in Texts, ch \in ChannelIds}

Events ==
    MessageEvents
      \cup {EventObj(Str("reaction_added"), Absent, Str("U024BE7LH"), Absent,
                     Absent),
            EventObj(Absent, Absent, Str("U024BE7LH"), Str(" hello world "),
                     Str("C024BE91L")),
            EventScalar(Absent), EventScalar(None), EventScalar(Str("message"))}

Challenges == {Absent, None, Str("abc123"), Str(""), Num("42")}

Docs ==
    {Payload(Str("event_callback"), Absent, e) : e \in Events}
      \cup {Payload(Str("url_verification"), c, e) :
               c \in Challenges, e \in {EventScalar(Absent), AMessage}}
      \cup {Payload(ty, c, e) :
               ty \in {Absent, None, Str("app_rate_limited")},
               c \in {Absent, Str("abc123")},
               e \in {EventScalar(Absent), AMessage}}
      \cup {Payload(Str("event_callback"), Str("abc123"), AMessage), ArrayDoc}

Quoted(s) == "\"" \o s \o "\""

\* The JSON text of a scalar (a string's quotes and backslashes are left
\* as they are: no text used here needs more than that to stay distinct).
ScalarText(x) ==
    CASE x.t = "null" -> "null"
      [] x.t = "str" -> Quoted(x.v)
      [] x.t = "num" -> x.v

Member(key, text) == Quoted(key) \o ":" \o text

RECURSIVE Join(_)
Join(members) ==
    IF members = <<>> THEN ""
    ELSE IF Len(members) = 1 THEN members[1]
    ELSE members[1] \o "," \o Join(Tail(members))

Present(key, x) == IF x.t = "absent" THEN <<>> ELSE <<Member(key, ScalarText(x))>>

EventText(e) ==
    IF e.t = "obj"
    THEN "{" \o Join(Present("type", e.type) \o Present("subtype", e.subtype)
                       \o Present("user", e.user) \o Present("text", e.text)
                       \o Present("channel", e.channel)) \o "}"
    ELSE ScalarText(e)

Serialize(d) ==
    IF d.t = "arr" THEN "[1]"
    ELSE "{" \o Join(Present("type", d.type)
                       \o Present("challenge", d.challenge)
                       \o (IF d.event.t = "absent" THEN <<>>
                           ELSE <<Member("event", EventText(d.event))>>)) \o "}"

TextOf == [d \in Docs |-> Serialize(d)]

\* Bodies that are no JSON text at all.
BrokenBodies == {"", "payload=%7B%7D"}

Bodies == {TextOf[d] : d \in Docs} \cup BrokenBodies

\* json.loads(body): [ok |-> TRUE, doc] or [ok |-> FALSE] (it raised).
json_loads(body) ==
    IF \E d \in Docs : TextOf[d] = body
    THEN [ok |-> TRUE, doc |-> CHOOSE d \in Docs : TextOf[d] = body]
    ELSE [ok |-> FALSE, doc |-> NoDoc]

(***************************************************************************)
(* Configuration and requests.                                             *)
(***************************************************************************)
EnvKeys == {"SLACK_SIGNING_SECRET", "SLACK_BOT_TOKEN",
            "GOOGLE_CHAT_ANNOUNCEMENTS_WEBHOOK_URL",
            "GOOGLE_CHAT_GENERAL_WEBHOOK_URL"}

\* What a deployment sets a key to, when it sets it to something.
Configured ==
    [k \in EnvKeys |->
        CASE k = "SLACK_SIGNING_SECRET" -> "8f742231b10e"
          [] k = "SLACK_BOT_TOKEN" -> "xoxb-2048"
          [] k = "GOOGLE_CHAT_ANNOUNCEMENTS_WEBHOOK_URL" ->
                 "https://chat.googleapis.com/v1/spaces/ANN/messages"
          [] k = "GOOGLE_CHAT_GENERAL_WEBHOOK_URL" ->
                 "https://chat.googleapis.com/v1/spaces/GEN/messages"]

\* A key is unset, set to the empty string, or set.
Environments == [EnvKeys -> {"unset", "empty", "set"}]

\* os.environ.get(key): None for a key that is not set.
environ_get(key) ==
    CASE env[key] = "unset" -> None
      [] env[key] = "empty" -> Str("")
      [] env[key] = "set" -> Str(Configured[key])

slack_signing_secret == environ_get("SLACK_SIGNING_SECRET")
slack_bot_token == environ_get("SLACK_BOT_TOKEN")
gchat_announcements_url == environ_get("GOOGLE_CHAT_ANNOUNCEMENTS_WEBHOOK_URL")
gchat_general_url == environ_get("GOOGLE_CHAT_GENERAL_WEBHOOK_URL")

\* A mutant: the check forgets the bot token.
AllConfiguredButToken ==
    /\ Truthy(slack_signing_secret)
    /\ Truthy(gchat_announcements_url)
    /\ Truthy(gchat_general_url)

\* all([slack_signing_secret, slack_bot_token, gchat_announcements_url,
\*      gchat_general_url])
AllConfigured ==
    /\ Truthy(slack_signing_secret)
    /\ Truthy(slack_bot_token)
    /\ Truthy(gchat_announcements_url)
    /\ Truthy(gchat_general_url)

Methods == {"POST", "GET", "PUT"}

Timestamps == {"", "1531420618"}

\* The X-Slack-Signature values sent with a body and a timestamp: none, the
\* one Slack computes, one computed with another secret, one computed for
\* another timestamp, and the right one with a stray high byte after it.
SignaturesFor(body, timestamp) ==
    {"",
     expected_signature(Configured["SLACK_SIGNING_SECRET"], body, timestamp),
     expected_signature("0000", body, timestamp),
     expected_signature(Configured["SLACK_SIGNING_SECRET"], body,
                        timestamp \o "9"),
     expected_signature(Configured["SLACK_SIGNING_SECRET"], body, timestamp)
        \o "^"}

Requests ==
    UNION {{[body |-> b, timestamp |-> ts, signature |-> sg] :
               sg \in SignaturesFor(b, ts)} :
           b \in Bodies, ts \in Timestamps}

\* The request before handler has read its body and headers.
Unread == [body |-> "?", timestamp |-> "?", signature |-> "?"]

NoResp == [statusCode |-> 0, enc |-> "", key |-> "", val |-> Absent]

\* {'statusCode': code, 'body': json.dumps({key: value})}
JsonResponse(code, key, value) ==
    [statusCode |-> code, enc |-> "json", key |-> key, val |-> Str(value)]

\* A mutant: the challenge goes out inside a JSON object.
WrappedResponse(challenge) ==
    [statusCode |-> 200, enc |-> "json", key |-> "challenge", val |-> challenge]

\* {'statusCode': 200, 'headers': {'Content-Type': 'text/plain'},
\*  'body': challenge}
TextResponse(challenge) ==
    [statusCode |-> 200, enc |-> "text", key |-> "", val |-> challenge]

MethodNotAllowed == JsonResponse(405, "error", "Method not allowed")
MissingConfiguration ==
    JsonResponse(500, "error", "Missing required environment variables")
\* A mutant: the rejection is a 403.
InvalidSignature403 == JsonResponse(403, "error", "Invalid signature")

InvalidSignature == JsonResponse(401, "error", "Invalid signature")
Skipped == JsonResponse(200, "status", "skipped_empty_or_bot_message")
Ok == JsonResponse(200, "status", "ok")
InternalError == JsonResponse(500, "error", "Internal server error")

(***************************************************************************)
(* The event router's decisions (handler, lines 49-73).                    *)
(***************************************************************************)
\* A mutant: the subtype is not looked at.
IsPlainMessageAnySubtype(event) == dict_get(event.type) = Str("message")

\* event.get('type') == 'message' and event.get('subtype') is None
IsPlainMessage(event) ==
    /\ dict_get(event.type) = Str("message")
    /\ dict_get(event.subtype) = None

\* not message_text.strip() or not user_id
IsSkipped(message_text, user_id) ==
    Strip(message_text) = "" \/ ~Truthy(user_id)

\* What handler does with the parsed body up to the first lookup:
\*   "raise"      an exception reaches the except clause of line 99
\*   "challenge"  the url_verification echo
\*   "skip"       the skipped_empty_or_bot_message return
\*   "lookup"     the message goes on to the lookups
\*   "ok"         nothing to do
RouteOf(doc) ==
    IF doc.t # "obj" THEN "raise"
    ELSE IF dict_get(doc.type) = Str("url_verification") THEN "challenge"
    ELSE IF dict_get(doc.type) = Str("event_callback")
    THEN LET event == IF doc.event.t = "absent" THEN EmptyDict ELSE doc.event
         IN  IF event.t # "obj" THEN "raise"
             ELSE IF IsPlainMessage(event)
             THEN LET message_text == dict_get_default(event.text, Str(""))
                  IN  IF message_text.t # "str" THEN "raise"
                      ELSE IF IsSkipped(message_text.v, dict_get(event.user))
                      THEN "skip"
                      ELSE "lookup"
             ELSE "ok"
    ELSE "ok"

(***************************************************************************)
(* Outbound calls.  A call is [kind, url, text, result]; result is what    *)
(* came of it: "ok", "notok" (a reply with ok false), or the exception.    *)
(***************************************************************************)
Call(kind, url, text, result) ==
    [kind |-> kind, url |-> url, text |-> text, result |-> result]

\* How a lookup ended, as the call records it.
ReplyResult(reply) ==
    IF reply.kind = "raise" THEN "URLError"
    ELSE IF reply.ok THEN "ok" ELSE "notok"

\* The replies of conversations.info: the request fails (URLError,
\* HTTPError, a body that is no JSON), or a JSON object arrives.
ChannelReplies ==
    {[kind |-> "raise", ok |-> FALSE, channel |-> "absent", name |-> Absent],
     [kind |-> "json", ok |-> FALSE, channel |-> "absent", name |-> Absent],
     [kind |-> "json", ok |-> TRUE, channel |-> "absent", name |-> Absent],
     [kind |-> "json", ok |-> TRUE, channel |-> "null", name |-> Absent]}
      \cup {[kind |-> "json", ok |-> TRUE, channel |-> "obj", name |-> n] :
               n \in {Absent, None, Str("general"), Str("announcements"),
                      Str("General"), Str("random"), Str("unknown")}}

\* get_channel_name: the name in the reply, 'unknown' on every failure.
get_channel_name(reply) ==
    IF reply.kind = "raise" THEN Str("unknown")
    ELSE IF reply.ok
    THEN CASE reply.channel = "absent" -> Str("unknown")
           [] reply.channel = "null" -> Str("unknown")
           [] reply.channel = "obj" ->
                  dict_get_default(reply.name, Str("unknown"))
    ELSE Str("unknown")

\* The replies of users.info.
UserReplies ==
    {[kind |-> "raise", ok |-> FALSE, display_name |-> Absent,
      real_name |-> Absent, name |-> Absent],
     [kind |-> "json", ok |-> FALSE, display_name |-> Absent,
      real_name |-> Absent, name |-> Absent]}
      \cup {[kind |-> "json", ok |-> TRUE, display_name |-> d,
             real_name |-> r, name |-> n] :
               d \in {Absent, Str(""), Str("Ada")},
               r \in {Absent, Str("Ada Lovelace")},
               n \in {Absent, Str("ada")}}

\* f"User-{user_id[-4:]}": a TypeError for a user id that is a number.
Synthesized(user_id) ==
    IF user_id.t = "str"
    THEN [raised |-> FALSE, name |-> "User-" \o LastChars(user_id.v)]
    ELSE [raised |-> TRUE, name |-> ""]

\* get_user_display_name: [raised, name].  The fallback of the except
\* clause is evaluated outside any try, so its exception leaves the call.
get_user_display_name(user_id, reply) ==
    IF reply.kind = "json" /\ reply.ok
    THEN IF Truthy(dict_get(reply.display_name))
         THEN [raised |-> FALSE, name |-> reply.display_name.v]
         ELSE IF Truthy(dict_get(reply.real_name))
         THEN [raised |-> FALSE, name |-> reply.real_name.v]
         ELSE IF Truthy(dict_get(reply.name))
         THEN [raised |-> FALSE, name |-> reply.name.v]
         ELSE Synthesized(user_id)
    ELSE Synthesized(user_id)

\* What the destination does with the POST.
RelayOutcomes == {"ok", "HTTPError", "URLError"}

\* gchat_message["text"]
MessageText(user_name_, message_text) == user_name_ \o ": " \o message_text

\* A mutant: an HTTPError of the destination is not caught.
forward_raises_http(outcome) == outcome = "HTTPError"

\* Whether forward_to_gchat lets the outcome of urlopen escape: both except
\* clauses only print.
forward_raises(outcome) == FALSE

\* The POSTs forward_to_gchat issues: one urlopen, whatever comes of it.
forward_posts(webhook_url, text, outcome) ==
    <<Call("relay", webhook_url, text, outcome)>>

\* The if/elif/else of lines 85-92: the webhook URL for a channel name, None
\* when the message is not forwarded.
RouteUrl(name) ==
    IF name = Str("general") THEN gchat_general_url
    ELSE IF name = Str("announcements") THEN gchat_announcements_url
    ELSE None

(***************************************************************************)
(* handler(request), one action per statement group.                       *)
(***************************************************************************)
NoVerifierCall == [signing_secret |-> "", body |-> "", timestamp |-> "",
                   signature |-> ""]

Init ==
    /\ env \in Environments
    /\ pc = "idle"
    /\ attempt = 0
    /\ method = ""
    /\ req = Unread
    /\ stages = <<>>
    /\ event_data = NoDoc
    /\ channel_name = None
    /\ user_name = ""
    /\ calls = <<>>
    /\ resp = NoResp
    /\ firstResp = NoResp
    /\ vin = NoVerifierCall
    /\ vout = "idle"
    /\ vchanged = "none"

\* handler returns r.
Return(r) ==
    /\ resp' = r
    /\ pc' = "done"
    /\ firstResp' = IF attempt = 1 THEN r ELSE firstResp

Stage(name) == stages' = Append(stages, name)

\* The host calls handler with a request.
Receive ==
    /\ pc = "idle"
    /\ \E m \in Methods : method' = m
    /\ attempt' = 1
    /\ pc' = "gate"
    /\ UNCHANGED <<env, req, stages, event_data, channel_name, user_name,
                   calls, resp, firstResp>>
    /\ UNCHANGED verifierVars

\* Lines 14-30: the method, then the configuration.
Gate ==
    /\ pc = "gate"
    /\ Stage("gate")
    /\ IF method # "POST" THEN Return(MethodNotAllowed)
       ELSE IF ~AllConfigured THEN Return(MissingConfiguration)
       ELSE pc' = "read" /\ UNCHANGED <<resp, firstResp>>
    /\ UNCHANGED <<env, attempt, method, req, event_data, channel_name,
                   user_name, calls>>
    /\ UNCHANGED verifierVars

\* Lines 34-36: request.get_data and the two headers (a missing header
\* reads as '').  A request delivered again carries what it carried before.
ReadRequest ==
    /\ pc = "read"
    /\ Stage("read")
    /\ IF attempt = 1 THEN \E r \in Requests : req' = r ELSE req' = req
    /\ pc' = "verify"
    /\ UNCHANGED <<env, attempt, method, event_data, channel_name, user_name,
                   calls, resp, firstResp>>
    /\ UNCHANGED verifierVars

\* Lines 39-43; a TypeError of compare_digest is caught at line 99.
VerifySignature ==
    /\ pc = "verify"
    /\ Stage("verify")
    /\ LET verdict == verify_slack_signature(slack_signing_secret.v, req.body,
                                             req.timestamp, req.signature)
       IN  CASE verdict = "false" -> Return(InvalidSignature)
             [] verdict = "raise" -> Return(InternalError)
             [] verdict = "true" -> pc' = "parse" /\ UNCHANGED <<resp, firstResp>>
    /\ UNCHANGED <<env, attempt, method, req, event_data, channel_name,
                   user_name, calls>>
    /\ UNCHANGED verifierVars

\* Line 46: json.loads(body); a JSONDecodeError is caught at line 99.
ParseBody ==
    /\ pc = "parse"
    /\ Stage("parse")
    /\ LET parsed == json_loads(req.body)
       IN  IF parsed.ok
           THEN /\ event_data' = parsed.doc
                /\ pc' = "route"
                /\ UNCHANGED <<resp, firstResp>>
           ELSE /\ Return(InternalError)
                /\ UNCHANGED event_data
    /\ UNCHANGED <<env, attempt, method, req, channel_name, user_name, calls>>
    /\ UNCHANGED verifierVars

\* Lines 49-73 and 94-97.
Route ==
    /\ pc = "route"
    /\ Stage("route")
    /\ LET route == RouteOf(event_data)
       IN  CASE route = "raise" -> Return(InternalError)
             [] route = "challenge" ->
                    Return(TextResponse(
                        dict_get_default(event_data.challenge, Str(""))))
             [] route = "skip" -> Return(Skipped)
             [] route = "ok" -> Return(Ok)
             [] route = "lookup" ->
                    pc' = "channel" /\ UNCHANGED <<resp, firstResp>>
    /\ UNCHANGED <<env, attempt, method, req, event_data, channel_name,
                   user_name, calls>>
    /\ UNCHANGED verifierVars

\* Line 76: get_channel_name(channel_id, slack_bot_token).
ChannelLookup ==
    /\ pc = "channel"
    /\ Stage("channel")
    /\ \E reply \in ChannelReplies :
          /\ channel_name' = get_channel_name(reply)
          /\ calls' = Append(calls,
                Call("conversations.info",
                     "https://slack.com/api/conversations.info?channel="
                        \o PyStr(event_data.event.channel),
                     "", ReplyResult(reply)))
    /\ pc' = "user"
    /\ UNCHANGED <<env, attempt, method, req, event_data, user_name, resp,
                   firstResp>>
    /\ UNCHANGED verifierVars

\* Line 79: get_user_display_name(user_id, slack_bot_token); an exception
\* that leaves it is caught at line 99.
UserLookup ==
    /\ pc = "user"
    /\ Stage("user")
    /\ \E reply \in UserReplies :
          LET got == get_user_display_name(event_data.event.user, reply)
          IN  /\ calls' = Append(calls,
                    Call("users.info",
                         "https://slack.com/api/users.info?user="
                            \o PyStr(event_data.event.user),
                         "", ReplyResult(reply)))
              /\ IF got.raised
                 THEN Return(InternalError) /\ UNCHANGED user_name
                 ELSE /\ user_name' = got.name
                      /\ pc' = "forward"
                      /\ UNCHANGED <<resp, firstResp>>
    /\ UNCHANGED <<env, attempt, method, req, event_data, channel_name>>
    /\ UNCHANGED verifierVars

\* Lines 85-97: forward_to_gchat for a routed channel, then the ok return.
Forward ==
    /\ pc = "forward"
    /\ Stage("forward")
    /\ LET webhook_url == RouteUrl(channel_name)
           text == MessageText(user_name, event_data.event.text.v)
       IN  IF webhook_url = None
           THEN Return(Ok) /\ UNCHANGED calls
           ELSE \E outcome \in RelayOutcomes :
                   /\ calls' = calls \o forward_posts(webhook_url.v, text, outcome)
                   /\ IF forward_raises(outcome) THEN Return(InternalError)
                      ELSE Return(Ok)
    /\ UNCHANGED <<env, attempt, method, req, event_data, channel_name,
                   user_name>>
    /\ UNCHANGED verifierVars

\* The sender delivers the same request once more.
Redeliver ==
    /\ pc = "done"
    /\ attempt < MaxAttempts
    /\ attempt' = attempt + 1
    /\ pc' = "gate"
    /\ stages' = <<>>
    /\ event_data' = NoDoc
    /\ channel_name' = None
    /\ user_name' = ""
    /\ calls' = <<>>
    /\ resp' = NoResp
    /\ UNCHANGED <<env, method, req, firstResp>>
    /\ UNCHANGED verifierVars

\* The invocation is over; nothing of it is kept.
Finish ==
    /\ pc = "done"
    /\ pc' = "idle"
    /\ attempt' = 0
    /\ method' = ""
    /\ req' = Unread
    /\ stages' = <<>>
    /\ event_data' = NoDoc
    /\ channel_name' = None
    /\ user_name' = ""
    /\ calls' = <<>>
    /\ resp' = NoResp
    /\ firstResp' = NoResp
    /\ UNCHANGED env
    /\ UNCHANGED verifierVars

Next ==
    \/ Receive
    \/ Gate
    \/ ReadRequest
    \/ VerifySignature
    \/ ParseBody
    \/ Route
    \/ ChannelLookup
    \/ UserLookup
    \/ Forward
    \/ Redeliver
    \/ Finish

Spec == Init /\ [][Next]_vars

(***************************************************************************)
(* verify_slack_signature called on its own: first with the signature that *)
(* belongs to the secret, the body and the timestamp, then with one of the *)
(* four arguments changed.                                                 *)
(***************************************************************************)
\* Secrets are non-empty: handler never passes an empty one (line 26).
SigSecrets == {"8f742231b10e", "0000", "8f742231b10f"}

SigBodies == {"", "{}", ":{}", "{\"type\":\"url_verification\"}"}

SigTimestamps == {"", "1531420618", "1531420618:"}

\* Signatures an argument can be changed to.
SigSignatures ==
    {expected_signature(s, b, ts) :
        s \in SigSecrets, b \in SigBodies, ts \in SigTimestamps}
      \cup {"", "v0=", "v0=^"}

InitVerifier ==
    /\ env = [k \in EnvKeys |-> "set"]
    /\ pc = "idle"
    /\ attempt = 0
    /\ method = ""
    /\ req = Unread
    /\ stages = <<>>
    /\ event_data = NoDoc
    /\ channel_name = None
    /\ user_name = ""
    /\ calls = <<>>
    /\ resp = NoResp
    /\ firstResp = NoResp
    /\ \E s \in SigSecrets, b \in SigBodies, ts \in SigTimestamps :
          vin = [signing_secret |-> s, body |-> b, timestamp |-> ts,
                 signature |-> expected_signature(s, b, ts)]
    /\ vout = "pending"
    /\ vchanged = "none"

CallVerifier ==
    /\ vout = "pending"
    /\ vout' = verify_slack_signature(vin.signing_secret, vin.body,
                                      vin.timestamp, vin.signature)
    /\ UNCHANGED <<vin, vchanged>>
    /\ UNCHANGED handlerVars

ChangeSecret ==
    /\ vout \in {"true", "false", "raise"}
    /\ vchanged = "none"
    /\ \E s \in SigSecrets \ {vin.signing_secret} :
          vin' = [vin EXCEPT !.signing_secret = s]
    /\ vchanged' = "secret"
    /\ vout' = "pending"
    /\ UNCHANGED handlerVars

ChangeBody ==
    /\ vout \in {"true", "false", "raise"}
    /\ vchanged = "none"
    /\ \E b \in SigBodies \ {vin.body} : vin' = [vin EXCEPT !.body = b]
    /\ vchanged' = "body"
    /\ vout' = "pending"
    /\ UNCHANGED handlerVars

ChangeTimestamp ==
    /\ vout \in {"true", "false", "raise"}
    /\ vchanged = "none"
    /\ \E ts \in SigTimestamps \ {vin.timestamp} :
          vin' = [vin EXCEPT !.timestamp = ts]
    /\ vchanged' = "timestamp"
    /\ vout' = "pending"
    /\ UNCHANGED handlerVars

ChangeSignature ==
    /\ vout \in {"true", "false", "raise"}
    /\ vchanged = "none"
    /\ \E sg \in (SigSignatures \cup {vin.signature \o "^"}) \ {vin.signature} :
          vin' = [vin EXCEPT !.signature = sg]
    /\ vchanged' = "signature"
    /\ vout' = "pending"
    /\ UNCHANGED handlerVars

NextVerifier ==
    \/ CallVerifier
    \/ ChangeSecret
    \/ ChangeBody
    \/ ChangeTimestamp
    \/ ChangeSignature

SpecVerifier == InitVerifier /\ [][NextVerifier]_vars

(***************************************************************************)
(* Vocabulary of the properties.                                           *)
(***************************************************************************)
Done == pc = "done"

Ran(stage) == \E i \in 1..Len(stages) : stages[i] = stage

IsRelay(c) == c.kind = "relay"

Relays == SelectSeq(calls, IsRelay)

ConfigComplete == \A k \in EnvKeys : env[k] = "set"

\* The request has been read by this delivery or an earlier one.
HasRequest == req # Unread

\* The signature is the one section 4.2 prescribes and nothing is missing.
SignatureVerifies ==
    /\ HasRequest
    /\ req.body # "" /\ req.timestamp # "" /\ req.signature # ""
    /\ req.signature =
          "v0=" \o hexdigest(Configured["SLACK_SIGNING_SECRET"],
                             "v0:" \o req.timestamp \o ":" \o req.body)

\* The document the body is the JSON text of (NoDoc: it is none).
SentDoc == IF HasRequest THEN json_loads(req.body).doc ELSE NoDoc

SentEvent == SentDoc.event

\* The payload is an event_callback carrying a message without a subtype.
SentPlainMessage ==
    /\ SentDoc.t = "obj"
    /\ SentDoc.type = Str("event_callback")
    /\ SentEvent.t = "obj"
    /\ SentEvent.type = Str("message")
    /\ SentEvent.subtype.t \in {"absent", "null"}

NonBlank(s) == \E i \in 1..Len(s) : SubSeq(s, i, i) \notin Whitespace

\* ... whose user id is present and whose text is not blank.
SentEligible ==
    /\ SentPlainMessage
    /\ SentEvent.user.t \in {"str", "num"}
    /\ SentEvent.user.v # ""
    /\ SentEvent.text.t = "str"
    /\ NonBlank(SentEvent.text.v)

\* This delivery got as far as the end of stage, with a valid signature.
Processed == Done /\ method = "POST" /\ ConfigComplete /\ SignatureVerifies

(***************************************************************************)
(* C1.                                                                     *)
(***************************************************************************)
\* C1: a POST under complete configuration whose signature does not verify
\* is answered 401, its body is never parsed, no outbound call is made, and
\* every delivery of it is answered alike.
C1_InvalidSignatureIs401 ==
    (Done /\ method = "POST" /\ ConfigComplete /\ HasRequest
       /\ ~SignatureVerifies)
    => /\ resp.statusCode = 401
       /\ ~Ran("parse")
       /\ calls = <<>>
       /\ (attempt > 1 => resp = firstResp)

(***************************************************************************)
(* C2.                                                                     *)
(***************************************************************************)
\* C2: forward_to_gchat is called at most once per delivery, and only for a
\* verified event_callback whose event is a message without subtype, with a
\* user id, a text that is not blank, and a resolved channel name of exactly
\* "general" or "announcements".
C2_ForwardOnlyWhenEligible ==
    /\ Len(Relays) <= 1
    /\ Len(Relays) = 1 =>
          /\ SignatureVerifies
          /\ SentEligible
          /\ channel_name \in {Str("general"), Str("announcements")}

C2_Witness ==
    /\ Done
    /\ Len(Relays) = 1
    /\ SentEvent.subtype = None
    /\ channel_name = Str("announcements")

(***************************************************************************)
(* C3.                                                                     *)
(***************************************************************************)
\* C3: for an eligible message, a resolved name "general" gives exactly one
\* relay call, to the general URL, with text "{displayName}: {messageText}";
\* "announcements" gives exactly one, to the announcements URL; any other
\* name gives none.
C3_RoutingByChannelName ==
    (Processed /\ SentEligible /\ Ran("channel"))
    => CASE channel_name = Str("general") ->
              /\ Len(Relays) = 1
              /\ Relays[1].url = Configured["GOOGLE_CHAT_GENERAL_WEBHOOK_URL"]
              /\ Relays[1].text = user_name \o ": " \o SentEvent.text.v
         [] channel_name = Str("announcements") ->
              /\ Len(Relays) = 1
              /\ Relays[1].url =
                    Configured["GOOGLE_CHAT_ANNOUNCEMENTS_WEBHOOK_URL"]
              /\ Relays[1].text = user_name \o ": " \o SentEvent.text.v
         [] OTHER -> Relays = <<>>

(***************************************************************************)
(* C4 (under SpecVerifier).                                                *)
(***************************************************************************)
Returned == vout \in {"true", "false", "raise"}

NothingMissing ==
    /\ vin.signing_secret # "" /\ vin.body # ""
    /\ vin.timestamp # "" /\ vin.signature # ""

\* C4 as stated: the signature that belongs to S, B and T is accepted for
\* every S, B and T, the empty ones included, and a change of any one of
\* the four arguments makes the verifier return false.
C4_AcceptsEveryCombination ==
    Returned => IF vchanged = "none" THEN vout = "true" ELSE vout = "false"

\* C4: with B and T non-empty the signature that belongs to S, B and T is
\* accepted; with B, T or the signature empty the verifier returns false;
\* after a change of exactly one argument it returns false, except that a
\* signature holding a non-ASCII character makes compare_digest raise.
C4_Verifier ==
    Returned =>
        IF ~NothingMissing THEN vout = "false"
        ELSE IF vchanged = "none" THEN vout = "true"
        ELSE IF vchanged = "signature" /\ ~IsAscii(vin.signature)
        THEN vout = "raise"
        ELSE vout = "false"

C4_Witness ==
    /\ Returned
    /\ vchanged = "timestamp"
    /\ NothingMissing
    /\ vin.timestamp = "1531420618:"
    /\ vin.body = "{}"
    /\ vout = "false"

(***************************************************************************)
(* C5.                                                                     *)
(***************************************************************************)
\* The body is no JSON text.
SentNotJson == HasRequest /\ ~json_loads(req.body).ok

\* The payload's top-level type is neither of the two recognised ones.
SentUnrecognized ==
    /\ SentDoc.t = "obj"
    /\ SentDoc.type \notin {Str("url_verification"), Str("event_callback")}

SentCallback == SentDoc.t = "obj" /\ SentDoc.type = Str("event_callback")

\* The malformed and unsupported payloads the claim lists.
SentMalformed ==
    \/ SentNotJson
    \/ SentDoc.t = "arr"
    \/ SentUnrecognized
    \/ SentCallback /\ SentEvent.t # "obj"
    \/ SentCallback /\ SentEvent.t = "obj" /\ SentEvent.type # Str("message")
    \/ SentCallback /\ SentEvent.t = "obj"
          /\ SentEvent.text.t \notin {"absent", "str"}

\* Those of them on which a statement of handler raises: json.loads on a
\* text that is no JSON, .get on a value that is no dict, .strip on a text
\* that is no str.
SentRaises ==
    \/ SentNotJson
    \/ SentDoc.t = "arr"
    \/ SentCallback /\ SentEvent.t \notin {"absent", "obj"}
    \/ SentPlainMessage /\ SentEvent.text.t \notin {"absent", "str"}

\* C5 as stated: every validly signed malformed or unsupported payload is
\* answered 200 and causes no outbound call.
C5_MalformedIsAbsorbed ==
    (Processed /\ SentMalformed) => resp.statusCode = 200 /\ calls = <<>>

\* C5: a validly signed malformed or unsupported payload causes no outbound
\* call; it is answered 500 "Internal server error" when a statement of
\* handler raises on it (body not JSON, JSON not an object, event present
\* but not an object, text of a plain message present but not a string),
\* and 200 {"status": "ok"} otherwise.
C5_MalformedNoSideEffect ==
    (Processed /\ SentMalformed) =>
        /\ calls = <<>>
        /\ IF SentRaises
           THEN /\ resp.statusCode = 500
                /\ resp.val = Str("Internal server error")
           ELSE /\ resp.statusCode = 200
                /\ resp.enc = "json" /\ resp.key = "status"
                /\ resp.val = Str("ok")

C5_Witness ==
    /\ Processed
    /\ SentCallback
    /\ SentEvent.t = "obj"
    /\ SentEvent.type = Str("reaction_added")
    /\ resp.statusCode = 200

(***************************************************************************)
(* C6.                                                                     *)
(***************************************************************************)
\* C6: once a message is routed, the relay is one POST attempt whatever the
\* destination does with it (success, HTTP error, transport error), and
\* handler answers 200 {"status": "ok"}.
C6_RelayOutcomeNeverSurfaces ==
    (Done /\ Ran("forward")
       /\ channel_name \in {Str("general"), Str("announcements")})
    => /\ Len(Relays) = 1
       /\ Relays[1].result \in RelayOutcomes
       /\ resp.statusCode = 200
       /\ resp.enc = "json" /\ resp.key = "status" /\ resp.val = Str("ok")

C6_Witness ==
    /\ Done
    /\ Len(Relays) = 1
    /\ Relays[1].result = "HTTPError"
    /\ resp.statusCode = 200

(***************************************************************************)
(* C7.                                                                     *)
(***************************************************************************)
LookupFailed(kind) ==
    \E i \in 1..Len(calls) : calls[i].kind = kind /\ calls[i].result # "ok"

\* C7: a failed channel lookup resolves to "unknown", the message is not
\* forwarded and the answer is 200; a failed user lookup resolves to
\* "User-" and the last four characters of the user id, and the answer is
\* 200.
C7_LookupFailuresNeverPropagate ==
    Done =>
        /\ LookupFailed("conversations.info") =>
              /\ channel_name = Str("unknown")
              /\ Relays = <<>>
              /\ resp.statusCode = 200
        /\ LookupFailed("users.info") =>
              /\ user_name = "User-" \o LastChars(SentEvent.user.v)
              /\ resp.statusCode = 200

(***************************************************************************)
(* C8.                                                                     *)
(***************************************************************************)
SentVerification == SentDoc.t = "obj" /\ SentDoc.type = Str("url_verification")

\* C8: a validly signed url_verification payload is answered 200 with the
\* challenge value itself as the body, not wrapped in JSON (the empty
\* string when the payload has no challenge key), and nothing else runs: no
\* lookup and no relay, whatever else the payload carries.
C8_ChallengeEcho ==
    (Processed /\ SentVerification) =>
        /\ resp.statusCode = 200
        /\ resp.enc = "text"
        /\ resp.val = IF SentDoc.challenge.t = "absent" THEN Str("")
                      ELSE SentDoc.challenge
        /\ calls = <<>>
        /\ ~Ran("channel") /\ ~Ran("user") /\ ~Ran("forward")

C8_Witness ==
    /\ Processed
    /\ SentVerification
    /\ SentEvent = AMessage
    /\ resp.val = Str("abc123")

(***************************************************************************)
(* C9.                                                                     *)
(***************************************************************************)
IsJsonBody(key, value) ==
    resp.enc = "json" /\ resp.key = key /\ resp.val = Str(value)

\* The responses the claim allows, each with its cause.
ListedResponse ==
    \/ resp.statusCode = 200 /\ IsJsonBody("status", "ok")
    \/ resp.statusCode = 200 /\ resp.enc = "text" /\ SentVerification
    \/ resp.statusCode = 401 /\ ~SignatureVerifies
    \/ resp.statusCode = 405 /\ method # "POST"
    \/ resp.statusCode = 500 /\ (~ConfigComplete \/ Ran("verify"))

\* C9 as stated: every response is one of the listed ones; a 200 that is
\* no challenge echo has body {"status": "ok"}.
C9_OnlyListedResponses == Done => ListedResponse

\* C9: every response is one of the listed ones, or the 200 with body
\* {"status": "skipped_empty_or_bot_message"} that answers a plain message
\* with a blank text or without a user id.
C9_Responses ==
    Done =>
        \/ ListedResponse
        \/ /\ resp.statusCode = 200
           /\ IsJsonBody("status", "skipped_empty_or_bot_message")
           /\ SentPlainMessage
           /\ ~SentEligible

C9_Witness ==
    /\ Done
    /\ resp.statusCode = 200
    /\ IsJsonBody("status", "skipped_empty_or_bot_message")
    /\ SentEvent.text = Str("   ")
    /\ SentEvent.user = Str("U024BE7LH")

(***************************************************************************)
(* C10.                                                                    *)
(***************************************************************************)
\* C10: a request that is not a POST is answered 405, and a POST under a
\* configuration with a value unset or empty is answered 500; in both cases
\* nothing but the gate runs: the body is not read, the signature is not
\* verified, no call is made.
C10_Gatekeeper ==
    (method # "" /\ (method # "POST" \/ ~ConfigComplete)) =>
        /\ stages \in {<<>>, <<"gate">>}
        /\ req = Unread
        /\ calls = <<>>
        /\ Done => resp.statusCode = (IF method # "POST" THEN 405 ELSE 500)

C10_Witness ==
    /\ Done
    /\ method = "POST"
    /\ env["SLACK_BOT_TOKEN"] = "empty"
    /\ \A k \in EnvKeys \ {"SLACK_BOT_TOKEN"} : env[k] = "set"
    /\ resp.statusCode = 500

====
